---- MODULE Spec2Model ----
(***************************************************************************)
(* Model of the C150 telemetry processor (src/backend/api.py and           *)
(* src/backend/telem_engine.py).                                           *)
(*                                                                         *)
(* A text cell is a sequence of one-character strings, a row a sequence of *)
(* cells and a grid a sequence of rows.  Row and column indices are kept   *)
(* 0-based, as in the source; Row(g, r) and Cell(row, c) do the shift.     *)
(***************************************************************************)
EXTENDS Integers, Sequences, FiniteSets, TLC

VARIABLES op, pc, rows, input, first, snap, trace, err, weights, rig_info,
          crew, piece, call, run, out

vars == << op, pc, rows, input, first, snap, trace, err, weights, rig_info,
           crew, piece, call, run, out >>

\* ------------------------------------------------------------------------
\* Bounds of the model
\* ------------------------------------------------------------------------

MaxNormRows == 3

MaxLead == 2

MaxData == 1

MaxSeatRows == 2

MaxPieceRows == 2

MaxEnsureRows == 2

MaxRuns == 2

MaxCalls == 2

\* ------------------------------------------------------------------------
\* str methods used by the source
\* ------------------------------------------------------------------------

\* Python's None, where an index is expected
None == -1

\* Python's None, where a text is expected (no cell has an element of several characters)
NoneStr == << "None" >>

\* the values of the locals before they are assigned
NoCrew == [ header_r |-> None, start |-> None, end |-> None, cols |-> << >> ]

NoPiece == [ header_r |-> None, table_start |-> None, table_end |-> None,
             zone_c |-> None, temp_c |-> None ]

NoCall == [ fn |-> "", header_r |-> None, table_end |-> None, left |-> << >>,
            new |-> << >>, right |-> << >>, ret |-> None ]

IsSpace(c) == c \in {" ", "\t", "\n", "\r"}

RECURSIVE lstrip(_)
lstrip(s) == IF s = << >> THEN << >>
             ELSE IF IsSpace(Head(s)) THEN lstrip(Tail(s)) ELSE s

RECURSIVE rstrip(_)
rstrip(s) == IF s = << >> THEN << >>
             ELSE IF IsSpace(s[Len(s)]) THEN rstrip(SubSeq(s, 1, Len(s) - 1)) ELSE s

strip(s) == rstrip(lstrip(s))

startswith(s, p) == Len(s) >= Len(p) /\ SubSeq(s, 1, Len(p)) = p

\* p in s
contains(s, p) == \E i \in 0..(Len(s) - Len(p)) : SubSeq(s, i + 1, i + Len(p)) = p

\* s.replace(p, r): leftmost, non-overlapping occurrences of p
RECURSIVE replace(_, _, _)
replace(s, p, r) ==
    IF s = << >> THEN << >>
    ELSE IF startswith(s, p) THEN r \o replace(SubSeq(s, Len(p) + 1, Len(s)), p, r)
    ELSE << Head(s) >> \o replace(Tail(s), p, r)

UpperCase == << "A","B","C","D","E","F","G","H","I","J","K","L","M",
                "N","O","P","Q","R","S","T","U","V","W","X","Y","Z" >>

LowerCase == << "a","b","c","d","e","f","g","h","i","j","k","l","m",
                "n","o","p","q","r","s","t","u","v","w","x","y","z" >>

LowerChar(c) == IF \E i \in 1..26 : UpperCase[i] = c
                THEN LowerCase[CHOOSE i \in 1..26 : UpperCase[i] = c]
                ELSE c

RECURSIVE lower(_)
lower(s) == IF s = << >> THEN << >> ELSE << LowerChar(Head(s)) >> \o lower(Tail(s))

Digits == << "0","1","2","3","4","5","6","7","8","9" >>

IsDigit(c) == \E i \in 1..10 : Digits[i] = c

isdigit(s) == s # << >> /\ \A i \in 1..Len(s) : IsDigit(s[i])

DigitVal(c) == (CHOOSE i \in 1..10 : Digits[i] = c) - 1

\* int(s) for a digit string s
RECURSIVE int(_)
int(s) == IF s = << >> THEN 0
          ELSE 10 * int(SubSeq(s, 1, Len(s) - 1)) + DigitVal(s[Len(s)])

\* ------------------------------------------------------------------------
\* Grid access
\* ------------------------------------------------------------------------

Row(g, r) == g[r + 1]

Cell(row, c) == row[c + 1]

\* the cell as read under pad-on-read: "" beyond the row's length
CellOr(row, c) == IF c < Len(row) THEN row[c + 1] ELSE << >>

SetCell(row, c, v) == [row EXCEPT ![c + 1] = v]

Max(a, b) == IF a >= b THEN a ELSE b

RECURSIVE Blanks(_)
Blanks(n) == IF n <= 0 THEN << >> ELSE << << >> >> \o Blanks(n - 1)

pad_row(row, min_len) ==
    IF Len(row) < min_len THEN row \o Blanks(min_len - Len(row)) ELSE row

\* any(str(c).strip() for c in row)
AnyNonBlank(row) == \E i \in 1..Len(row) : strip(row[i]) # << >>

\* ------------------------------------------------------------------------
\* Text constants of the source
\* ------------------------------------------------------------------------

ERROR_MARK == <<"#","E","R","R","O","R","!">>

EQ_MARK == <<"=","=","=","=","=">>

COMMA == <<",">>

QUOTE == <<"\"">>

SPACE == <<" ">>

s_File_Info == <<"F","i","l","e"," ","I","n","f","o">>

s_GPS_Info == <<"G","P","S"," ","I","n","f","o">>

s_Crew_Info == <<"C","r","e","w"," ","I","n","f","o">>

s_Piece == <<"P","i","e","c","e">>

s_Aperiodic == <<"A","p","e","r","i","o","d","i","c">>

s_0x800A == <<"0","x","8","0","0","A">>

s_Periodic == <<"P","e","r","i","o","d","i","c">>

s_Position == <<"P","o","s","i","t","i","o","n">>

s_Name == <<"N","a","m","e">>

s_Abbr == <<"A","b","b","r">>

s_Weight == <<"W","e","i","g","h","t">>

s_Pace == <<"P","a","c","e">>

s_comment == <<"c","o","m","m","e","n","t">>

s_Wind == <<"W","i","n","d">>

s_Stream == <<"S","t","r","e","a","m">>

s_Validated == <<"V","a","l","i","d","a","t","e","d">>

s_Zone == <<"Z","o","n","e">>

s_Temperature == <<"T","e","m","p","e","r","a","t","u","r","e">>

s_Cox == <<"C","o","x">>

s_Serial == <<"S","e","r","i","a","l"," ","#">>

s_Session == <<"S","e","s","s","i","o","n">>

s_Filename == <<"F","i","l","e","n","a","m","e">>

s_Start_Time == <<"S","t","a","r","t"," ","T","i","m","e">>

FILE_INFO_SIG == { s_Serial, s_Session, s_Filename, s_Start_Time }

GPS_INFO_SIG == { <<"L","a","t">>, <<"L","o","n">>, <<"U","T","C">>,
                  <<"P","e","a","c","h","T","i","m","e">> }

CREW_INFO_SIG == { s_Position, s_Name, s_Abbr, s_Weight }

PIECE_LABEL_SIG == { <<"S","t","a","r","t">>, <<"E","n","d">>, <<"#">>,
                     <<"D","u","r","a","t","i","o","n">>,
                     <<"D","i","s","t","a","n","c","e">>,
                     <<"R","a","t","i","n","g">>, s_Pace, s_comment, s_Wind,
                     s_Stream, s_Validated }

PIECE_SIG == { s_Pace, s_comment, s_Wind, s_Stream, s_Validated }

STOP_WORDS == { <<"c","o","x">>, <<"c","o","a","c","h">> }

\* ------------------------------------------------------------------------
\* api.py: export normalizer and sanitizer
\* ------------------------------------------------------------------------

_header_signature(row) == { strip(row[i]) : i \in 1..Len(row) } \ { << >> }

\* the 0-based indices of the rows carrying the File Info header signature
FileInfoHits(g) ==
    { i \in 0..(Len(g) - 1) : FILE_INFO_SIG \subseteq _header_signature(Row(g, i)) }

\* hits[1]: the second smallest index
SecondHit(hits) == CHOOSE i \in hits : Cardinality({ j \in hits : j < i }) = 1

trim_to_first_export(g) ==
    LET hits == FileInfoHits(g)
    IN  IF Cardinality(hits) <= 1 THEN g
        ELSE SubSeq(g, 1, SecondHit(hits) - 1)

\* a sanitizer that forgets the double quotes
SanitizeCommasOnly(cell) == replace(cell, COMMA, SPACE)

SanitizeCell(cell) == replace(replace(cell, COMMA, SPACE), QUOTE, << >>)

sanitize_for_naive_split_parser(g) ==
    [ r \in 1..Len(g) |-> [ c \in 1..Len(g[r]) |-> SanitizeCell(g[r][c]) ] ]

\* one iteration of the loop of normalize_section_markers
NormalizeRow(row) ==
    IF row = << >> THEN row
    ELSE LET frst == strip(row[1])
         IN  IF frst = EQ_MARK THEN [row EXCEPT ![1] = ERROR_MARK]
             ELSE IF startswith(frst, EQ_MARK) /\ ~contains(frst, COMMA)
                  THEN << ERROR_MARK, strip(replace(frst, EQ_MARK, << >>)) >>
                  ELSE row

normalize_section_markers(g) == [ r \in 1..Len(g) |-> NormalizeRow(g[r]) ]

RECURSIVE next_nonempty_row(_, _)
next_nonempty_row(g, start_idx) ==
    IF start_idx >= Len(g) THEN None
    ELSE IF Row(g, start_idx) # << >> /\ AnyNonBlank(Row(g, start_idx)) THEN start_idx
    ELSE next_nonempty_row(g, start_idx + 1)

\* the row written over a bare marker whose next non-empty row is `nxt`
InferredMarker(marker, nxt) ==
    LET sig == _header_signature(nxt)
    IN  IF FILE_INFO_SIG \subseteq sig THEN << ERROR_MARK, s_File_Info >>
        ELSE IF GPS_INFO_SIG \subseteq sig THEN << ERROR_MARK, s_GPS_Info >>
        ELSE IF CREW_INFO_SIG \subseteq sig THEN << ERROR_MARK, s_Crew_Info >>
        ELSE IF PIECE_LABEL_SIG \subseteq sig THEN << ERROR_MARK, s_Piece >>
        ELSE IF (\E i \in 1..Len(nxt) : contains(nxt[i], s_Aperiodic))
                /\ (\E i \in 1..Len(nxt) : contains(nxt[i], s_0x800A))
             THEN << ERROR_MARK, s_Aperiodic, s_0x800A >>
        ELSE IF \E i \in 1..Len(nxt) : contains(nxt[i], s_Periodic)
             THEN << ERROR_MARK, s_Periodic >>
        ELSE marker

IsBareMarker(row) ==
    /\ row # << >>
    /\ strip(row[1]) = ERROR_MARK
    /\ (Len(row) < 2 \/ strip(row[2]) = << >>)

\* the while loop of label_bare_error_markers, from index i on
RECURSIVE LabelFrom(_, _)
LabelFrom(g, i) ==
    IF i >= Len(g) THEN g
    ELSE IF IsBareMarker(Row(g, i))
         THEN LET j == next_nonempty_row(g, i + 1)
              IN  IF j = None THEN LabelFrom(g, i + 1)
                  ELSE LabelFrom([g EXCEPT ![i + 1] = InferredMarker(Row(g, i), Row(g, j))],
                                 i + 1)
         ELSE LabelFrom(g, i + 1)

label_bare_error_markers(g) == LabelFrom(g, 0)

\* the marker-normalization step: api.py lines 228-229, 316-317, 340-341
NormalizeStep(g) == label_bare_error_markers(normalize_section_markers(g))

\* ------------------------------------------------------------------------
\* telem_engine.py: table locator
\* ------------------------------------------------------------------------

is_section_header_row(row) == row # << >> /\ startswith(strip(row[1]), EQ_MARK)

\* {cell.strip() for cell in row if ... str(cell).strip() != ""}
NameSet(row) == { strip(row[i]) : i \in 1..Len(row) } \ { << >> }

\* the dict of header_col_map: a later cell of the same name replaces an earlier
header_col_map(header_row) ==
    [ k \in NameSet(header_row) |->
        (CHOOSE i \in 1..Len(header_row) :
            /\ strip(header_row[i]) = k
            /\ \A j \in 1..Len(header_row) : strip(header_row[j]) = k => j <= i) - 1 ]

\* dict.get(k)
ColGet(cols, k) == IF k \in DOMAIN cols THEN cols[k] ELSE None

\* find_first_cell: the first (r_idx, c_idx) in row-major order, or << >> for None
find_first_cell(g, target) ==
    LET hitrows == { r \in 0..(Len(g) - 1) :
                       \E c \in 0..(Len(Row(g, r)) - 1) : strip(Cell(Row(g, r), c)) = target }
    IN  IF hitrows = { } THEN << >>
        ELSE LET r == CHOOSE x \in hitrows : \A y \in hitrows : x <= y
                 hitcols == { c \in 0..(Len(Row(g, r)) - 1) : strip(Cell(Row(g, r), c)) = target }
             IN  << r, CHOOSE x \in hitcols : \A y \in hitcols : x <= y >>

\* the first row whose names include `required`, or None
FirstRowWith(g, required) ==
    LET hit == { r \in 0..(Len(g) - 1) : required \subseteq NameSet(Row(g, r)) }
    IN  IF hit = { } THEN None ELSE CHOOSE x \in hit : \A y \in hit : x <= y

find_piece_header_row(g) == FirstRowWith(g, PIECE_SIG)

\* the while loop of find_table_bounds_from_header
RECURSIVE ScanToSection(_, _)
ScanToSection(g, end) ==
    IF end >= Len(g) THEN end
    ELSE IF is_section_header_row(Row(g, end)) THEN end
    ELSE ScanToSection(g, end + 1)

find_table_bounds_from_header(g, header_r) ==
    << header_r + 1, ScanToSection(g, header_r + 1) >>

\* the while loop of find_crew_info_table
RECURSIVE ScanCrewEnd(_, _)
ScanCrewEnd(g, end) ==
    IF end >= Len(g) THEN end
    ELSE IF is_section_header_row(Row(g, end)) THEN end
    ELSE IF lower(strip(IF Row(g, end) # << >> THEN Row(g, end)[1] ELSE << >>)) \in STOP_WORDS
         THEN end
    ELSE ScanCrewEnd(g, end + 1)

find_crew_info_table(g) ==
    LET r_idx == FirstRowWith(g, CREW_INFO_SIG)
    IN  IF r_idx = None THEN NoCrew
        ELSE [ header_r |-> r_idx, start |-> r_idx + 1,
               end |-> ScanCrewEnd(g, r_idx + 1),
               cols |-> header_col_map(Row(g, r_idx)) ]

\* ------------------------------------------------------------------------
\* telem_engine.py: schema mutator
\* ------------------------------------------------------------------------

\* list.insert(i, v) for i <= len
InsertAt(row, i, v) == SubSeq(row, 1, i) \o << v >> \o SubSeq(row, i + 1, Len(row))

\* an insertion loop without pad_row: list.insert past the end of a short row
\* appends the cell
InsertColumnNoPad(g, header_r, table_end, insert_at, new_col_name) ==
    [ r \in 1..Len(g) |->
        IF header_r <= r - 1 /\ r - 1 < table_end
        THEN LET at == IF insert_at < Len(g[r]) THEN insert_at ELSE Len(g[r])
                 wide == InsertAt(g[r], at, << >>)
             IN  IF r - 1 = header_r THEN SetCell(wide, at, new_col_name) ELSE wide
        ELSE g[r] ]

\* the insertion loop: rows header_r .. table_end - 1 are padded and widened,
\* then the header cell is named
InsertColumn(g, header_r, table_end, insert_at, new_col_name) ==
    [ r \in 1..Len(g) |->
        IF header_r <= r - 1 /\ r - 1 < table_end
        THEN LET wide == InsertAt(pad_row(g[r], insert_at), insert_at, << >>)
             IN  IF r - 1 = header_r THEN SetCell(wide, insert_at, new_col_name) ELSE wide
        ELSE g[r] ]

\* a schema mutator without the early return for a name the header has
_ensure_column_between_AlwaysInsert(g, header_r, table_start, table_end, left_col_name, new_col_name, right_col_name) ==
    LET cols == header_col_map(Row(g, header_r))
    IN  IF left_col_name \notin DOMAIN cols \/ right_col_name \notin DOMAIN cols
        THEN [ rows |-> g, ret |-> None, err |-> "ValueError: missing anchor column" ]
        ELSE [ rows |-> InsertColumn(g, header_r, table_end, cols[left_col_name] + 1,
                                     new_col_name),
               ret |-> cols[left_col_name] + 1, err |-> "" ]

_ensure_column_between(g, header_r, table_start, table_end, left_col_name, new_col_name, right_col_name) ==
    LET cols == header_col_map(Row(g, header_r))
    IN  IF new_col_name \in DOMAIN cols
        THEN [ rows |-> g, ret |-> cols[new_col_name], err |-> "" ]
        ELSE IF left_col_name \notin DOMAIN cols \/ right_col_name \notin DOMAIN cols
        THEN [ rows |-> g, ret |-> None, err |-> "ValueError: missing anchor column" ]
        ELSE [ rows |-> InsertColumn(g, header_r, table_end, cols[left_col_name] + 1,
                                     new_col_name),
               ret |-> cols[left_col_name] + 1, err |-> "" ]

_ensure_column_after(g, header_r, table_end, anchor_col_name, new_col_name) ==
    LET cols == header_col_map(Row(g, header_r))
    IN  IF new_col_name \in DOMAIN cols
        THEN [ rows |-> g, ret |-> cols[new_col_name], err |-> "" ]
        ELSE IF anchor_col_name \notin DOMAIN cols
        THEN [ rows |-> g, ret |-> None, err |-> "ValueError: missing anchor column" ]
        ELSE [ rows |-> InsertColumn(g, header_r, table_end, cols[anchor_col_name] + 1,
                                     new_col_name),
               ret |-> cols[anchor_col_name] + 1, err |-> "" ]

\* ------------------------------------------------------------------------
\* telem_engine.py: apply_updates
\* ------------------------------------------------------------------------

\* weights_by_abbr.get(k): the dict is a sequence of <<key, value>> pairs in
\* insertion order, a later pair of the same key replacing an earlier one
DictGet(d, k) ==
    LET at == { i \in 1..Len(d) : d[i][1] = k }
    IN  IF at = { } THEN NoneStr ELSE d[CHOOSE i \in at : \A j \in at : j <= i][2]

\* 1) the cell two to the right of the first cell named exactly "Cox"
WriteCoxUni(g, cox_uni) ==
    LET cox_pos == find_first_cell(g, s_Cox)
    IN  IF cox_pos = << >>
        THEN [ rows |-> g, err |-> "ValueError: no cell named Cox" ]
        ELSE [ rows |-> [ g EXCEPT ![cox_pos[1] + 1] =
                            SetCell(pad_row(@, cox_pos[2] + 3), cox_pos[2] + 2, cox_uni) ],
               err |-> "" ]

\* the guards of both crew loops: a non-empty row whose first cell is a digit
\* string with 1 <= int(pos) <= 8
IsSeatRow(row) ==
    /\ row # << >>
    /\ isdigit(strip(row[1]))
    /\ int(strip(row[1])) >= 1
    /\ int(strip(row[1])) <= 8

\* f"pos_{pos}" for the stripped first cell pos
PosKey(pos) == <<"p","o","s","_">> \o pos

\* the weight resolved for a seat row (None when neither key gives one)
ResolveWeight(d, abbr, pos) ==
    LET w == DictGet(d, abbr)
    IN  IF w = NoneStr \/ strip(w) = << >> THEN DictGet(d, PosKey(pos)) ELSE w

\* one iteration of the write loop
WriteWeightRow(row, abbr_c, weight_c, d) ==
    IF ~IsSeatRow(row) THEN [ row |-> row, err |-> "" ]
    ELSE LET padded == pad_row(row, weight_c + 1)
         IN  IF abbr_c >= Len(padded)
             THEN [ row |-> padded, err |-> "IndexError" ]
             ELSE LET w == ResolveWeight(d, lower(strip(Cell(padded, abbr_c))),
                                         strip(row[1]))
                  IN  IF w # NoneStr /\ strip(w) # << >>
                      THEN [ row |-> SetCell(padded, weight_c, strip(w)), err |-> "" ]
                      ELSE [ row |-> padded, err |-> "" ]

RECURSIVE WriteWeights(_, _, _, _, _, _)
WriteWeights(g, r, crew_end, abbr_c, weight_c, d) ==
    IF r >= crew_end THEN [ rows |-> g, err |-> "" ]
    ELSE LET res == WriteWeightRow(Row(g, r), abbr_c, weight_c, d)
             g2 == [ g EXCEPT ![r + 1] = res.row ]
         IN  IF res.err # "" THEN [ rows |-> g2, err |-> res.err ]
             ELSE WriteWeights(g2, r + 1, crew_end, abbr_c, weight_c, d)

\* the second loop: the first seat row whose Weight cell is still blank
RECURSIVE CheckWeights(_, _, _, _)
CheckWeights(g, r, crew_end, weight_c) ==
    IF r >= crew_end THEN [ rows |-> g, err |-> "", seat |-> << >> ]
    ELSE IF ~IsSeatRow(Row(g, r)) THEN CheckWeights(g, r + 1, crew_end, weight_c)
    ELSE LET g2 == [ g EXCEPT ![r + 1] = pad_row(@, weight_c + 1) ]
         IN  IF strip(Cell(Row(g2, r), weight_c)) = << >>
             THEN [ rows |-> g2, err |-> "ValueError: missing weight for seat",
                    seat |-> strip(Row(g, r)[1]) ]
             ELSE CheckWeights(g2, r + 1, crew_end, weight_c)

\* PACE_LIKE.match(s) for PACE_LIKE = re.compile(r".*:\d{2}.*"): a colon followed
\* by two digits, with no line break before it
PACE_LIKE(s) ==
    \E i \in 1..(Len(s) - 2) :
        /\ s[i] = ":"
        /\ IsDigit(s[i + 1])
        /\ IsDigit(s[i + 2])
        /\ \A j \in 1..(i - 1) : s[j] # "\n"

\* one iteration of the piece loop
WritePieceRow(row, cols, zone_c, temp_c, rig, zone, wind, stream, temperature) ==
    IF row = << >> \/ ~AnyNonBlank(row) THEN [ row |-> row, err |-> "" ]
    ELSE LET comment_c == cols[s_comment]
             wind_c == cols[s_Wind]
             stream_c == cols[s_Stream]
             padded == pad_row(row, Max(comment_c, Max(zone_c, Max(wind_c,
                                        Max(stream_c, temp_c)))) + 1)
             pace_val == IF s_Pace \in DOMAIN cols THEN strip(Cell(padded, cols[s_Pace]))
                         ELSE << >>
         IN  IF s_Pace \in DOMAIN cols /\ cols[s_Pace] >= Len(padded)
             THEN [ row |-> padded, err |-> "IndexError" ]
             ELSE IF pace_val = << >> \/ ~PACE_LIKE(pace_val)
             THEN [ row |-> padded, err |-> "" ]
             ELSE [ row |-> SetCell(SetCell(SetCell(SetCell(SetCell(padded,
                                comment_c, rig), zone_c, zone), wind_c, wind),
                                stream_c, stream), temp_c, temperature),
                    err |-> "" ]

RECURSIVE WritePieceRows(_, _, _, _, _, _, _, _, _, _, _)
WritePieceRows(g, r, table_end, cols, zone_c, temp_c, rig, zone, wind, stream, temperature) ==
    IF r >= table_end THEN [ rows |-> g, err |-> "" ]
    ELSE LET res == WritePieceRow(Row(g, r), cols, zone_c, temp_c, rig, zone, wind,
                                  stream, temperature)
             g2 == [ g EXCEPT ![r + 1] = res.row ]
         IN  IF res.err # "" THEN [ rows |-> g2, err |-> res.err ]
             ELSE WritePieceRows(g2, r + 1, table_end, cols, zone_c, temp_c, rig, zone,
                                 wind, stream, temperature)

\* ------------------------------------------------------------------------
\* api.py: parse_first_crew
\* ------------------------------------------------------------------------

IsLetter(c) == \E i \in 1..26 : UpperCase[i] = c \/ LowerCase[i] = c

\* UNI_RE.match(s) for UNI_RE = re.compile(r"^[a-z]{2,8}\d{3,8}$", re.IGNORECASE)
UNI_RE(s) ==
    \E k \in 2..8 :
        /\ Len(s) - k >= 3
        /\ Len(s) - k <= 8
        /\ \A i \in 1..k : IsLetter(s[i])
        /\ \A i \in (k + 1)..Len(s) : IsDigit(s[i])

\* a loop of parse_first_crew that keeps no set of the seats already taken
RECURSIVE ExtractCrewNoSeen(_, _, _, _, _, _, _, _)
ExtractCrewNoSeen(g, r, end, pos_c, name_c, abbr_c, weight_c, acc) ==
    IF r >= end \/ Len(acc) = 8 THEN [ rows |-> g, out |-> acc, err |-> "" ]
    ELSE IF Row(g, r) = << >>
         THEN ExtractCrewNoSeen(g, r + 1, end, pos_c, name_c, abbr_c, weight_c, acc)
    ELSE IF pos_c >= Len(Row(g, r)) THEN [ rows |-> g, out |-> acc, err |-> "IndexError" ]
    ELSE LET pos_raw == strip(Cell(Row(g, r), pos_c))
             padded == pad_row(Row(g, r), Max(name_c, Max(abbr_c, weight_c)) + 1)
             g2 == [ g EXCEPT ![r + 1] = padded ]
             abbr == strip(Cell(padded, abbr_c))
         IN  IF ~isdigit(pos_raw) \/ int(pos_raw) < 1 \/ int(pos_raw) > 8
             THEN ExtractCrewNoSeen(g, r + 1, end, pos_c, name_c, abbr_c, weight_c, acc)
             ELSE IF abbr = << >> \/ ~UNI_RE(abbr)
             THEN ExtractCrewNoSeen(g2, r + 1, end, pos_c, name_c, abbr_c, weight_c, acc)
             ELSE ExtractCrewNoSeen(g2, r + 1, end, pos_c, name_c, abbr_c, weight_c,
                      Append(acc, [ pos |-> int(pos_raw),
                                    name |-> strip(Cell(padded, name_c)),
                                    abbr |-> abbr,
                                    existing_weight |-> strip(Cell(padded, weight_c)) ]))

\* the loop of parse_first_crew from row r on; seats already taken are those of acc
RECURSIVE ExtractCrew(_, _, _, _, _, _, _, _)
ExtractCrew(g, r, end, pos_c, name_c, abbr_c, weight_c, acc) ==
    IF r >= end \/ Len(acc) = 8 THEN [ rows |-> g, out |-> acc, err |-> "" ]
    ELSE IF Row(g, r) = << >>
         THEN ExtractCrew(g, r + 1, end, pos_c, name_c, abbr_c, weight_c, acc)
    ELSE IF pos_c >= Len(Row(g, r)) THEN [ rows |-> g, out |-> acc, err |-> "IndexError" ]
    ELSE LET pos_raw == strip(Cell(Row(g, r), pos_c))
         IN  IF ~isdigit(pos_raw) \/ int(pos_raw) < 1 \/ int(pos_raw) > 8
                \/ (\E i \in 1..Len(acc) : acc[i].pos = int(pos_raw))
             THEN ExtractCrew(g, r + 1, end, pos_c, name_c, abbr_c, weight_c, acc)
             ELSE LET padded == pad_row(Row(g, r), Max(name_c, Max(abbr_c, weight_c)) + 1)
                      g2 == [ g EXCEPT ![r + 1] = padded ]
                      abbr == strip(Cell(padded, abbr_c))
                  IN  IF abbr = << >> \/ ~UNI_RE(abbr)
                      THEN ExtractCrew(g2, r + 1, end, pos_c, name_c, abbr_c, weight_c, acc)
                      ELSE ExtractCrew(g2, r + 1, end, pos_c, name_c, abbr_c, weight_c,
                               Append(acc, [ pos |-> int(pos_raw),
                                             name |-> strip(Cell(padded, name_c)),
                                             abbr |-> abbr,
                                             existing_weight |-> strip(Cell(padded, weight_c)) ]))

\* out.sort(key=lambda x: x["pos"]); the seats of out are distinct
RECURSIVE SortByPos(_)
SortByPos(acc) ==
    IF acc = << >> THEN << >>
    ELSE LET m == CHOOSE i \in 1..Len(acc) : \A j \in 1..Len(acc) : acc[i].pos <= acc[j].pos
         IN  << acc[m] >> \o SortByPos(SubSeq(acc, 1, m - 1) \o SubSeq(acc, m + 1, Len(acc)))

\* ------------------------------------------------------------------------
\* api.py: validation of weights_json in process_file
\* ------------------------------------------------------------------------

\* float(raw) succeeds: decimal literals ([sign] digits [. digits]); exponents,
\* inf and nan are outside the alphabet of the model
IsFloat(raw) ==
    LET body == IF raw # << >> /\ raw[1] \in { "+", "-" } THEN Tail(raw) ELSE raw
    IN  /\ \E i \in 1..Len(body) : IsDigit(body[i])
        /\ \A i \in 1..Len(body) : IsDigit(body[i]) \/ body[i] = "."
        /\ Cardinality({ i \in 1..Len(body) : body[i] = "." }) <= 1

\* float(raw) > 0 for a literal raw
IsPositive(raw) ==
    /\ raw[1] # "-"
    /\ \E i \in 1..Len(raw) : IsDigit(raw[i]) /\ raw[i] # "0"

\* the error of the per-seat loop, "" when every pos_1..pos_8 is a positive number
ValidateWeights(obj) ==
    LET bad(seat) ==
            LET v == DictGet(obj, PosKey(<< Digits[seat + 1] >>))
                raw == IF v = NoneStr THEN << >> ELSE strip(v)
            IN  raw = << >> \/ ~IsFloat(raw) \/ ~IsPositive(raw)
    IN  IF \E seat \in 1..8 : bad(seat) THEN "HTTP 400: weight missing or invalid" ELSE ""

\* weights_by_key: keys stripped and lower-cased, values stripped, empty keys dropped
RECURSIVE NormalizeKeys(_)
NormalizeKeys(obj) ==
    IF obj = << >> THEN << >>
    ELSE LET kk == lower(strip(obj[1][1]))
             vv == strip(obj[1][2])
         IN  (IF kk # << >> THEN << << kk, vv >> >> ELSE << >>) \o NormalizeKeys(Tail(obj))

\* ------------------------------------------------------------------------
\* Statement order of the operations
\* ------------------------------------------------------------------------

Stages(o) ==
    CASE o = "normalize" -> << "normalize", "renormalize", "done" >>
      [] o = "trim" -> << "trim", "done" >>
      [] o = "preview" -> << "trim", "normalize", "sanitize", "locate_crew",
                             "extract", "done" >>
      [] o = "commit" -> << "validate", "trim", "normalize", "cox", "locate_crew",
                            "weights", "check_weights", "locate_piece",
                            "ensure_zone", "ensure_temp", "write_pieces",
                            "renormalize", "sanitize", "rectangularize", "done" >>
      [] OTHER -> << "done" >>

NextStage(o, p) ==
    LET st == Stages(o)
        i == CHOOSE k \in 1..Len(st) : st[k] = p
    IN  st[i + 1]

\* ------------------------------------------------------------------------
\* Input grids
\* ------------------------------------------------------------------------

FileInfoHeader == << s_Serial, s_Session, s_Filename, s_Start_Time >>

CrewHeader == << s_Position, s_Name, s_Abbr, s_Weight >>

PieceLabelHeader == << <<"S","t","a","r","t">>, <<"E","n","d">>, <<"#">>,
                       <<"D","u","r","a","t","i","o","n">>,
                       <<"D","i","s","t","a","n","c","e">>,
                       <<"R","a","t","i","n","g">>, s_Pace, s_comment, s_Wind,
                       s_Stream, s_Validated >>

NormRows ==
    { << >>,
      << << >>, << >> >>,
      << ERROR_MARK >>,
      << ERROR_MARK, SPACE >>,
      << ERROR_MARK, s_Crew_Info >>,
      << EQ_MARK >>,
      << EQ_MARK, s_Piece >>,
      << EQ_MARK \o SPACE \o s_File_Info >>,
      << SPACE \o EQ_MARK \o SPACE \o s_Periodic \o SPACE >>,
      << EQ_MARK \o <<"a">> \o COMMA \o <<"b">> >>,
      FileInfoHeader,
      CrewHeader,
      PieceLabelHeader,
      << <<"x">>, s_Aperiodic \o SPACE \o s_0x800A >>,
      << s_Periodic \o <<"1">> >>,
      << <<"1">>, <<"x">> >> }

RECURSIVE GridsOver(_, _)
GridsOver(rowset, n) ==
    IF n = 0 THEN { << >> }
    ELSE LET shorter == GridsOver(rowset, n - 1)
         IN  shorter \cup { Append(g, r) : g \in { h \in shorter : Len(h) = n - 1 },
                                           r \in rowset }

\* what every operation starts from, given the uploaded grid
Start(o, g) ==
    /\ op = o
    /\ pc = Stages(o)[1]
    /\ rows = g
    /\ input = g
    /\ snap = g
    /\ trace = << >>
    /\ err = ""
    /\ crew = NoCrew
    /\ piece = NoPiece
    /\ call = NoCall
    /\ run = 1
    /\ out = << >>

\* ------------------------------------------------------------------------
\* Steps
\* ------------------------------------------------------------------------

\* rows = trim_to_first_export(rows)
Trim ==
    /\ pc = "trim"
    /\ snap' = rows
    /\ rows' = trim_to_first_export(rows)
    /\ trace' = Append(trace, "trim")
    /\ pc' = NextStage(op, pc)
    /\ UNCHANGED << op, input, first, err, weights, rig_info, crew, piece, call, run, out >>

\* rows = normalize_section_markers(rows); rows = label_bare_error_markers(rows)
NormalizeMarkers ==
    /\ pc \in { "normalize", "renormalize" }
    /\ snap' = rows
    /\ rows' = NormalizeStep(rows)
    /\ trace' = Append(trace, "normalize")
    /\ pc' = NextStage(op, pc)
    /\ UNCHANGED << op, input, first, err, weights, rig_info, crew, piece, call, run, out >>

\* the form fields of process_file, as passed to apply_updates
cox_uni == <<"c","x","1","2","3">>

zone_clean == <<"T","2">>

wind_i == <<"3">>

stream_i == <<"-","1">>

temp_i == <<"1","8">>

RigInfos == { <<"r","i","g">>, <<"a",",","\"","b">> }

\* pos_1 .. pos_8, each with a two-digit weight
PosWeights == [ k \in 1..8 |-> << PosKey(<< Digits[k + 1] >>), << "7", Digits[k + 1] >> >> ]

WeightsById ==
    PosWeights \o << << <<" ","A","B","1","2","3">>, <<" ","6","8",".","5"," ">> >> >>

WeightsBlankId == PosWeights \o << << <<"z","z","9","9","9">>, <<" "," ">> >> >>

WeightsMissingSeat == [ PosWeights EXCEPT ![5] = << @[1], << >> >> ]

WeightMaps == { WeightsById, WeightsBlankId, WeightsMissingSeat }

CrewHeaders ==
    { CrewHeader,
      << s_Position, s_Name, s_Weight, s_Abbr >>,
      << s_Position, s_Name, s_Abbr, <<"W","e","i","\"","g","h","t">> >>,
      << s_Name, s_Position, s_Abbr, s_Weight >> }

SeatRows ==
    { << <<"1">>, <<"J",",","\"","r">>, <<" ","A","B","1","2","3"," ">>, << >> >>,
      << <<"2">>, <<"n">>, <<"z","z","9","9","9">>, <<"5","5">> >>,
      << <<"0","3">>, <<"n">>, <<"q","q","1","1","1">> >>,
      << <<"9">>, <<"n">>, <<"a","b","1","2","3">> >>,
      << <<" ","1"," ">>, <<"m">>, <<"c","d","4","5","6","7">>, <<"6","0">> >>,
      << <<"2">>, <<"m">>, <<"x","1">>, <<"6","0">> >>,
      << >> }

CoxRow == << s_Cox, <<"c">> >>

PieceHeader == << s_Pace, s_comment, s_Wind, s_Stream, s_Validated >>

PieceHeaders ==
    { PieceHeader,
      << s_Pace, s_comment, s_Zone, s_Wind, s_Stream, s_Validated, s_Temperature >>,
      << s_comment, s_Wind, s_Stream, s_Validated, s_Pace >>,
      << s_Validated, s_Pace, s_comment, s_Wind, s_Stream >> }

PieceRows ==
    { << <<"1",":","3","1",".","4">> >>,
      << <<"N","/","A">>, <<"o",",","\"","k">> >>,
      << <<" ","2",":","0","5"," ">>, <<"c">>, <<"w">>, <<"s">>, <<"5",":","5","5">>, <<"e">> >>,
      << << >>, SPACE >>,
      << <<"1",":","3">>, <<"1",":","3","0">> >> }

PieceMarker == << EQ_MARK \o SPACE \o s_Piece >>

Tails == { << >>,
           << << EQ_MARK \o SPACE \o s_Periodic >>, << <<"3",":","1","5">>, <<"7">> >> >> }

PieceTable == << PieceMarker, PieceHeader, << <<"1",":","3","1",".","4">> >> >>

\* grids that vary the Crew table and the place of the Cox row, the Piece table fixed
CrewGrids ==
    { (IF cox = "before" THEN << CoxRow >> ELSE << >>) \o << h >> \o seats
        \o (IF cox = "after" THEN << CoxRow >> ELSE << >>) \o PieceTable :
        h \in CrewHeaders, seats \in GridsOver(SeatRows, MaxSeatRows),
        cox \in { "none", "before", "after" } }

\* grids that vary the Piece table and what follows it, the Crew table fixed
PieceGrids ==
    { << CrewHeader,
         << <<"1">>, <<"n">>, <<"a","b","1","2","3">>, << >> >>,
         << <<"2">>, <<"n">>, <<"z","z","9","9","9">>, <<"5","5">> >>,
         CoxRow, PieceMarker, h >> \o prows \o tail :
        h \in PieceHeaders, prows \in GridsOver(PieceRows, MaxPieceRows), tail \in Tails }

EnsureHeaders ==
    { PieceHeader,
      << s_Validated, s_comment, s_Wind >>,
      << s_comment, SPACE \o s_Zone, s_Wind >>,
      << s_Wind, <<"x">> >>,
      << s_comment, <<"x">> >> }

EnsureRows == { << >>, << <<"a">> >>, << <<"a">>, <<"b">>, <<"c">>, <<"d">> >> }

BetweenCalls == { << s_comment, s_Zone, s_Wind >> }

AfterCalls == { << s_Validated, s_Temperature >> }

\* the state after a step that raised: no response body is produced
Fail(g, e, stage) ==
    /\ rows' = g
    /\ err' = e
    /\ pc' = "failed"
    /\ trace' = Append(trace, stage)

\* the weights_json checks and the key normalization of process_file
Validate ==
    /\ pc = "validate"
    /\ snap' = rows
    /\ IF ValidateWeights(weights) # ""
       THEN Fail(rows, ValidateWeights(weights), "validate") /\ UNCHANGED weights
       ELSE /\ weights' = NormalizeKeys(weights)
            /\ trace' = Append(trace, "validate")
            /\ pc' = NextStage(op, pc)
            /\ UNCHANGED << rows, err >>
    /\ UNCHANGED << op, input, first, rig_info, crew, piece, call, run, out >>

\* apply_updates 1): the Cox UNI cell
CoxUni ==
    /\ pc = "cox"
    /\ snap' = rows
    /\ LET res == WriteCoxUni(rows, cox_uni)
       IN  IF res.err # "" THEN Fail(res.rows, res.err, "cox")
           ELSE /\ rows' = res.rows
                /\ trace' = Append(trace, "cox")
                /\ pc' = NextStage(op, pc)
                /\ UNCHANGED err
    /\ UNCHANGED << op, input, first, weights, rig_info, crew, piece, call, run, out >>

\* crew = find_crew_info_table(rows), and the checks on its column map
LocateCrew ==
    /\ pc = "locate_crew"
    /\ snap' = rows
    /\ LET found == find_crew_info_table(rows)
       IN  IF found = NoCrew
           THEN Fail(rows, "Crew Info table not found", "locate_crew") /\ UNCHANGED crew
           ELSE IF ColGet(found.cols, s_Abbr) = None \/ ColGet(found.cols, s_Weight) = None
                   \/ (op = "preview" /\ ColGet(found.cols, s_Name) = None)
           THEN Fail(rows, "Crew Info table missing columns", "locate_crew")
                /\ UNCHANGED crew
           ELSE /\ crew' = found
                /\ trace' = Append(trace, "locate_crew")
                /\ pc' = NextStage(op, pc)
                /\ UNCHANGED << rows, err >>
    /\ UNCHANGED << op, input, first, weights, rig_info, piece, call, run, out >>

\* apply_updates 2): the write loop over crew_start .. crew_end - 1
ResolveWeights ==
    /\ pc = "weights"
    /\ snap' = rows
    /\ LET res == WriteWeights(rows, crew.start, crew.end, crew.cols[s_Abbr],
                               crew.cols[s_Weight], weights)
       IN  IF res.err # "" THEN Fail(res.rows, res.err, "weights")
           ELSE /\ rows' = res.rows
                /\ trace' = Append(trace, "weights")
                /\ pc' = NextStage(op, pc)
                /\ UNCHANGED err
    /\ UNCHANGED << op, input, first, weights, rig_info, crew, piece, call, run, out >>

\* apply_updates 2): the completeness loop
CheckCrewComplete ==
    /\ pc = "check_weights"
    /\ snap' = rows
    /\ LET res == CheckWeights(rows, crew.start, crew.end, crew.cols[s_Weight])
       IN  IF res.err # "" THEN Fail(res.rows, res.err, "check_weights") /\ UNCHANGED out
           ELSE /\ rows' = res.rows
                /\ trace' = Append(trace, "check_weights")
                /\ pc' = NextStage(op, pc)
                /\ UNCHANGED << err, out >>
    /\ UNCHANGED << op, input, first, weights, rig_info, crew, piece, call, run >>

\* apply_updates 3): the Piece header row and its bounds
LocatePiece ==
    /\ pc = "locate_piece"
    /\ snap' = rows
    /\ LET piece_header_r == find_piece_header_row(rows)
       IN  IF piece_header_r = None
           THEN Fail(rows, "ValueError: no Piece header row", "locate_piece")
                /\ UNCHANGED piece
           ELSE LET bounds == find_table_bounds_from_header(rows, piece_header_r)
                IN  /\ piece' = [ NoPiece EXCEPT !.header_r = piece_header_r,
                                                 !.table_start = bounds[1],
                                                 !.table_end = bounds[2] ]
                    /\ trace' = Append(trace, "locate_piece")
                    /\ pc' = NextStage(op, pc)
                    /\ UNCHANGED << rows, err >>
    /\ UNCHANGED << op, input, first, weights, rig_info, crew, call, run, out >>

\* zone_c = _ensure_column_between(..., "comment", "Zone", "Wind")
EnsureZone ==
    /\ pc = "ensure_zone"
    /\ snap' = rows
    /\ LET res == _ensure_column_between(rows, piece.header_r, piece.table_start,
                                         piece.table_end, s_comment, s_Zone, s_Wind)
       IN  /\ call' = [ fn |-> "between", header_r |-> piece.header_r,
                        table_end |-> piece.table_end, left |-> s_comment,
                        new |-> s_Zone, right |-> s_Wind, ret |-> res.ret ]
           /\ IF res.err # "" THEN Fail(res.rows, res.err, "ensure_zone") /\ UNCHANGED piece
              ELSE /\ rows' = res.rows
                   /\ piece' = [ piece EXCEPT !.zone_c = res.ret ]
                   /\ trace' = Append(trace, "ensure_zone")
                   /\ pc' = NextStage(op, pc)
                   /\ UNCHANGED err
    /\ UNCHANGED << op, input, first, weights, rig_info, crew, run, out >>

\* temp_c = _ensure_column_after(..., "Validated", "Temperature")
EnsureTemperature ==
    /\ pc = "ensure_temp"
    /\ snap' = rows
    /\ LET res == _ensure_column_after(rows, piece.header_r, piece.table_end,
                                       s_Validated, s_Temperature)
       IN  /\ call' = [ fn |-> "after", header_r |-> piece.header_r,
                        table_end |-> piece.table_end, left |-> s_Validated,
                        new |-> s_Temperature, right |-> << >>, ret |-> res.ret ]
           /\ IF res.err # "" THEN Fail(res.rows, res.err, "ensure_temp") /\ UNCHANGED piece
              ELSE /\ rows' = res.rows
                   /\ piece' = [ piece EXCEPT !.temp_c = res.ret ]
                   /\ trace' = Append(trace, "ensure_temp")
                   /\ pc' = NextStage(op, pc)
                   /\ UNCHANGED err
    /\ UNCHANGED << op, input, first, weights, rig_info, crew, run, out >>

\* the column map rebuilt after the insertions, and the loop over the piece rows
FillPieceRows ==
    /\ pc = "write_pieces"
    /\ snap' = rows
    /\ LET res == WritePieceRows(rows, piece.table_start, piece.table_end,
                                 header_col_map(Row(rows, piece.header_r)),
                                 piece.zone_c, piece.temp_c,
                                 rig_info, zone_clean, wind_i, stream_i, temp_i)
       IN  IF res.err # "" THEN Fail(res.rows, res.err, "write_pieces")
           ELSE /\ rows' = res.rows
                /\ trace' = Append(trace, "write_pieces")
                /\ pc' = NextStage(op, pc)
                /\ UNCHANGED err
    /\ UNCHANGED << op, input, first, weights, rig_info, crew, piece, call, run, out >>

\* rows = sanitize_for_naive_split_parser(rows)
Sanitize ==
    /\ pc = "sanitize"
    /\ snap' = rows
    /\ rows' = sanitize_for_naive_split_parser(rows)
    /\ trace' = Append(trace, "sanitize")
    /\ pc' = NextStage(op, pc)
    /\ UNCHANGED << op, input, first, err, weights, rig_info, crew, piece, call, run, out >>

\* max(len(r) for r in updated)
MaxLen(g) == IF g = << >> THEN 0
             ELSE CHOOSE n \in { Len(g[i]) : i \in 1..Len(g) } :
                      \A i \in 1..Len(g) : Len(g[i]) <= n

\* for r in updated: pad_row(r, max_len); the grid is then the response body
Rectangularize ==
    /\ pc = "rectangularize"
    /\ snap' = rows
    /\ rows' = [ r \in 1..Len(rows) |-> pad_row(rows[r], MaxLen(rows)) ]
    /\ trace' = Append(trace, "rectangularize")
    /\ pc' = NextStage(op, pc)
    /\ UNCHANGED << op, input, first, err, weights, rig_info, crew, piece, call, run, out >>

\* the loop and the sort of parse_first_crew; out is the crew of the response
ExtractPreview ==
    /\ pc = "extract"
    /\ snap' = rows
    /\ LET pos_c == IF s_Position \in DOMAIN crew.cols THEN crew.cols[s_Position] ELSE 0
           res == ExtractCrew(rows, crew.start, crew.end, pos_c, crew.cols[s_Name],
                              crew.cols[s_Abbr], crew.cols[s_Weight], << >>)
       IN  IF res.err # "" THEN Fail(res.rows, res.err, "extract") /\ UNCHANGED out
           ELSE /\ rows' = res.rows
                /\ out' = SortByPos(res.out)
                /\ trace' = Append(trace, "extract")
                /\ pc' = NextStage(op, pc)
                /\ UNCHANGED err
    /\ UNCHANGED << op, input, first, weights, rig_info, crew, piece, call, run >>

\* the client uploads the file a commit returned, with the same form fields
Resubmit ==
    /\ op = "commit"
    /\ pc = "done"
    /\ run < MaxRuns
    /\ run' = run + 1
    /\ input' = rows
    /\ snap' = rows
    /\ pc' = "trim"
    /\ trace' = << >>
    /\ crew' = NoCrew
    /\ piece' = NoPiece
    /\ call' = NoCall
    /\ UNCHANGED << op, rows, first, err, weights, rig_info, out >>

\* a direct call of _ensure_column_between on the table chosen at the start
CallBetween ==
    /\ op = "ensure"
    /\ pc = "call"
    /\ run <= MaxCalls
    /\ \E names \in BetweenCalls :
         LET res == _ensure_column_between(rows, piece.header_r, piece.table_start,
                                           piece.table_end, names[1], names[2], names[3])
         IN  /\ call' = [ fn |-> "between", header_r |-> piece.header_r,
                          table_end |-> piece.table_end, left |-> names[1],
                          new |-> names[2], right |-> names[3], ret |-> res.ret ]
             /\ rows' = res.rows
             /\ err' = res.err
    /\ snap' = rows
    /\ run' = run + 1
    /\ trace' = Append(trace, "between")
    /\ UNCHANGED << op, pc, input, first, weights, rig_info, crew, piece, out >>

\* a direct call of _ensure_column_after on the table chosen at the start
CallAfter ==
    /\ op = "ensure"
    /\ pc = "call"
    /\ run <= MaxCalls
    /\ \E names \in AfterCalls :
         LET res == _ensure_column_after(rows, piece.header_r, piece.table_end,
                                         names[1], names[2])
         IN  /\ call' = [ fn |-> "after", header_r |-> piece.header_r,
                          table_end |-> piece.table_end, left |-> names[1],
                          new |-> names[2], right |-> << >>, ret |-> res.ret ]
             /\ rows' = res.rows
             /\ err' = res.err
    /\ snap' = rows
    /\ run' = run + 1
    /\ trace' = Append(trace, "after")
    /\ UNCHANGED << op, pc, input, first, weights, rig_info, crew, piece, out >>

\* ------------------------------------------------------------------------
\* The commit and preview operations, and direct calls of the schema mutator
\* ------------------------------------------------------------------------

InitCommit ==
    \/ \E g \in CrewGrids, w \in WeightMaps :
         Start("commit", g) /\ weights = w /\ rig_info = <<"r","i","g">>
    \/ \E g \in PieceGrids, rig \in RigInfos :
         Start("commit", g) /\ weights = WeightsById /\ rig_info = rig

InitPreview ==
    \E g \in CrewGrids : Start("preview", g) /\ weights = << >> /\ rig_info = << >>

InitEnsure ==
    \E pre \in GridsOver(EnsureRows, 1), h \in EnsureHeaders,
       post \in GridsOver(EnsureRows, MaxEnsureRows) :
        \E table_end \in (Len(pre) + 1)..(Len(pre) + 1 + Len(post)) :
            /\ op = "ensure"
            /\ pc = "call"
            /\ rows = pre \o << h >> \o post
            /\ input = rows
            /\ snap = rows
            /\ trace = << >>
            /\ err = ""
            /\ weights = << >>
            /\ rig_info = << >>
            /\ crew = NoCrew
            /\ piece = [ NoPiece EXCEPT !.header_r = Len(pre),
                                        !.table_start = Len(pre) + 1,
                                        !.table_end = table_end ]
            /\ call = NoCall
            /\ run = 1
            /\ out = << >>

Init == (InitCommit \/ InitPreview \/ InitEnsure) /\ first = << >>

Next ==
    \/ Validate
    \/ Trim
    \/ NormalizeMarkers
    \/ CoxUni
    \/ LocateCrew
    \/ ResolveWeights
    \/ CheckCrewComplete
    \/ LocatePiece
    \/ EnsureZone
    \/ EnsureTemperature
    \/ FillPieceRows
    \/ Sanitize
    \/ Rectangularize
    \/ ExtractPreview
    \/ Resubmit
    \/ CallBetween
    \/ CallAfter

Spec == Init /\ [][Next]_vars

\* ------------------------------------------------------------------------
\* Properties of the commit and preview operations
\* ------------------------------------------------------------------------

LastStage == IF trace = << >> THEN "" ELSE trace[Len(trace)]

\* the 0-based indices of the cells of a header row that carry a name
NameAt(header, name) == { i \in 0..(Len(header) - 1) : strip(header[i + 1]) = name }

\* a Section Marker row, in either spelling
IsSectionMarker(row) ==
    row # << >> /\ (strip(row[1]) = ERROR_MARK \/ startswith(strip(row[1]), EQ_MARK))

IsStopRow(row) == row # << >> /\ lower(strip(row[1])) \in STOP_WORDS

\* the first row after header_r that ends a table, the length of the grid if none
RegionEnd(g, header_r, crewTable) ==
    LET stops == { e \in (header_r + 1)..(Len(g) - 1) :
                     IsSectionMarker(Row(g, e)) \/ (crewTable /\ IsStopRow(Row(g, e))) }
    IN  IF stops = { } THEN Len(g) ELSE CHOOSE e \in stops : \A x \in stops : e <= x

\* C3: in commit, the data region located for the Crew table and for the Piece
\* table ends at the first row after the header that is a Section Marker in the
\* form it then has (or, for the Crew table, whose first cell is cox or coach),
\* and reaches the end of the grid only when there is none.
C3_RegionEndsAtMarker ==
    /\ (op = "commit" /\ LastStage = "locate_crew" /\ pc # "failed")
          => crew.end = RegionEnd(rows, crew.header_r, TRUE)
    /\ (op = "commit" /\ LastStage = "locate_piece" /\ pc # "failed")
          => piece.table_end = RegionEnd(rows, piece.header_r, FALSE)

\* a call of the schema mutator has just returned: rows is the grid after it,
\* snap the grid before it, call its arguments and result
JustCalled ==
    /\ call.fn # ""
    /\ op = "ensure" \/ LastStage \in { "ensure_zone", "ensure_temp" }

AnchorsPresent ==
    /\ NameAt(Row(snap, call.header_r), call.left) # { }
    /\ call.fn = "between" => NameAt(Row(snap, call.header_r), call.right) # { }

\* row n is row o padded with blanks to ins cells, with one cell v put in at ins
RowWidened(o, n, ins, v) ==
    /\ Len(n) = Max(Len(o), ins) + 1
    /\ \A c \in 0..(ins - 1) : Cell(n, c) = CellOr(o, c)
    /\ Cell(n, ins) = v
    /\ \A c \in ins..(Len(o) - 1) : Cell(n, c + 1) = Cell(o, c)

C5_EnsureIsIdempotent ==
    /\ (JustCalled /\ NameAt(Row(snap, call.header_r), call.new) # { }) =>
          /\ rows = snap
          /\ err = ""
          /\ call.ret \in NameAt(Row(snap, call.header_r), call.new)
    /\ (piece.header_r # None /\ pc # "failed") =>
          /\ Cardinality(NameAt(Row(rows, piece.header_r), s_Zone)) <= 1
          /\ Cardinality(NameAt(Row(rows, piece.header_r), s_Temperature)) <= 1
    /\ (op = "commit" /\ piece.temp_c # None) =>
          /\ Cardinality(NameAt(Row(rows, piece.header_r), s_Zone)) = 1
          /\ Cardinality(NameAt(Row(rows, piece.header_r), s_Temperature)) = 1
    /\ (op = "commit" /\ run >= 2) =>
          /\ Len(rows) = Len(input)
          /\ \A r \in 1..Len(rows) : Len(rows[r]) = Len(input[r])

\* the second commit of a grid has passed both calls of the schema mutator
C5_Witness ==
    /\ op = "commit"
    /\ run = 2
    /\ pc = "write_pieces"
    /\ call.fn = "after"
    /\ call.ret \in NameAt(Row(snap, call.header_r), s_Temperature)
    /\ rows = snap

\* the value a key has in the weight map, << >> when it has none
WeightUnder(d, k) == IF DictGet(d, k) = NoneStr THEN << >> ELSE strip(DictGet(d, k))

\* the seat a row is for, 0 when it is no seat row
SeatOf(row) ==
    IF row # << >> /\ isdigit(strip(row[1])) /\ int(strip(row[1])) \in 1..8
    THEN int(strip(row[1])) ELSE 0

\* C6: after the write pass, the Weight cell of every Crew-table row for a seat
\* s in 1..8 holds the value under the row's identifier (trimmed, lower-cased)
\* when that is non-blank, else the value under pos_<s> when that is non-blank,
\* else its prior content.
C6_WeightPrecedence ==
    (op = "commit" /\ LastStage = "weights" /\ pc # "failed") =>
        \A r \in crew.start..(crew.end - 1) :
            LET old == Row(snap, r)
                s == SeatOf(old)
                byId == WeightUnder(weights, lower(strip(CellOr(old, crew.cols[s_Abbr]))))
                bySeat == WeightUnder(weights, PosKey(<< Digits[s + 1] >>))
            IN  s # 0 =>
                  CellOr(Row(rows, r), crew.cols[s_Weight]) =
                      IF byId # << >> THEN byId
                      ELSE IF bySeat # << >> THEN bySeat
                      ELSE CellOr(old, crew.cols[s_Weight])

\* C7: whenever the completeness check has passed, and whenever the commit has
\* returned its grid, every seat 1..8 has a Crew-table row whose Weight cell is
\* non-blank.
C7_EverySeatHasWeight ==
    (op = "commit" /\ pc \in { "locate_piece", "done" }) =>
        \A s \in 1..8 :
            \E r \in crew.start..(crew.end - 1) :
                /\ SeatOf(Row(rows, r)) = s
                /\ strip(CellOr(Row(rows, r), crew.cols[s_Weight])) # << >>

\* minutes:seconds-like: a colon followed by two digits
PaceShaped(s) == \E i \in 1..Len(s) : s[i] = ":" /\ i + 2 <= Len(s)
                                      /\ IsDigit(s[i + 1]) /\ IsDigit(s[i + 2])

\* the column of the Piece header that carries a name
ColumnOf(header, name) == CHOOSE i \in NameAt(header, name) : TRUE

\* C8: of the rows in the Piece table's bounds, exactly those that are not
\* blank and carry a pace-shaped value under Pace receive the metadata, all
\* five cells together (comment, Zone, Wind, Stream, Temperature); in every
\* other row none of these five cells changes.
C8_PieceRowsClassified ==
    (op = "commit" /\ LastStage = "write_pieces" /\ pc # "failed") =>
        LET header == Row(rows, piece.header_r)
        IN  \A r \in piece.table_start..(piece.table_end - 1) :
                LET old == Row(snap, r)
                    new == Row(rows, r)
                    isPiece == /\ AnyNonBlank(old)
                               /\ PaceShaped(strip(CellOr(old, ColumnOf(header, s_Pace))))
                IN  IF isPiece
                    THEN /\ CellOr(new, ColumnOf(header, s_comment)) = rig_info
                         /\ CellOr(new, ColumnOf(header, s_Zone)) = zone_clean
                         /\ CellOr(new, ColumnOf(header, s_Wind)) = wind_i
                         /\ CellOr(new, ColumnOf(header, s_Stream)) = stream_i
                         /\ CellOr(new, ColumnOf(header, s_Temperature)) = temp_i
                    ELSE \A name \in { s_comment, s_Zone, s_Wind, s_Stream, s_Temperature } :
                             CellOr(new, ColumnOf(header, name))
                                 = CellOr(old, ColumnOf(header, name))

\* a cell with each comma turned into one space and each double quote dropped
RECURSIVE Cleaned(_)
Cleaned(cell) ==
    IF cell = << >> THEN << >>
    ELSE IF Head(cell) = "\"" THEN Cleaned(Tail(cell))
    ELSE << IF Head(cell) = "," THEN " " ELSE Head(cell) >> \o Cleaned(Tail(cell))

Widest(g) == CHOOSE n \in 0..50 : (\A r \in 1..Len(g) : Len(g[r]) <= n)
                                  /\ (g # << >> => \E r \in 1..Len(g) : Len(g[r]) = n)

\* C9: the grid a successful commit returns is rectangular, every row as long
\* as its longest, and none of its cells holds a comma or a double quote: the
\* cells are those of the grid before sanitization with each comma replaced by
\* a space and each double quote removed, the short rows filled with blanks.
C9_OutputWellFormed ==
    /\ (op = "commit" /\ pc = "rectangularize") =>
          /\ Len(rows) = Len(snap)
          /\ \A r \in 1..Len(rows) :
                /\ Len(rows[r]) = Len(snap[r])
                /\ \A c \in 1..Len(rows[r]) : rows[r][c] = Cleaned(snap[r][c])
    /\ (op = "commit" /\ pc = "done") =>
          /\ Len(rows) = Len(snap)
          /\ \A r \in 1..Len(rows) :
                /\ Len(rows[r]) = Widest(snap)
                /\ \A c \in 1..Len(rows[r]) :
                      /\ rows[r][c] = (IF c <= Len(snap[r]) THEN snap[r][c] ELSE << >>)
                      /\ \A i \in 1..Len(rows[r][c]) : rows[r][c][i] \notin { ",", "\"" }

\* a commit has returned a grid whose input was ragged and held a comma and a
\* double quote, and into which the pipeline wrote a rig text holding both
C9_Witness ==
    /\ op = "commit"
    /\ pc = "done"
    /\ run = 1
    /\ \E r \in 1..Len(input) : \E c \in 1..Len(input[r]) :
          contains(input[r][c], COMMA) /\ contains(input[r][c], QUOTE)
    /\ \E r1, r2 \in 1..Len(input) : Len(input[r1]) # Len(input[r2])
    /\ contains(rig_info, COMMA)
    /\ contains(rig_info, QUOTE)
    /\ \E r \in 1..Len(rows) : \E c \in 1..Len(rows[r]) : rows[r][c] = Cleaned(rig_info)

\* the stages that look cells up by their exact text
LookupStages == { "trim", "normalize", "cox", "locate_crew", "weights",
                  "locate_piece", "ensure_zone", "ensure_temp", "write_pieces",
                  "extract" }

\* the stages of trace that are in the set, in their order
RECURSIVE Only(_, _)
Only(t, set) ==
    IF t = << >> THEN << >>
    ELSE (IF Head(t) \in set THEN << Head(t) >> ELSE << >>) \o Only(Tail(t), set)

\* C10: in every operation the Sanitizer runs after all lookups by exact cell
\* text; commit runs trim, normalize, locate Crew, resolve weights, locate
\* Piece, insert columns, write piece rows, normalize, sanitize, rectangularize
\* in this order; preview runs only normalization, Crew table location and
\* extraction, with no sanitization before the Crew table is located.
C10_SanitizeAfterLookups ==
    /\ \A i, j \in 1..Len(trace) :
          (trace[i] = "sanitize" /\ trace[j] \in LookupStages) => j < i
    /\ (op = "commit" /\ pc = "done") =>
          Only(trace, { "trim", "normalize", "locate_crew", "weights", "locate_piece",
                        "ensure_zone", "ensure_temp", "write_pieces", "sanitize",
                        "rectangularize" })
            = << "trim", "normalize", "locate_crew", "weights", "locate_piece",
                 "ensure_zone", "ensure_temp", "write_pieces", "normalize",
                 "sanitize", "rectangularize" >>
    /\ (op = "preview" /\ pc = "done") =>
          \A i \in 1..Len(trace) :
              trace[i] \in { "trim", "normalize", "locate_crew", "extract" }

\* C11: no cell read of apply_updates or of parse_first_crew at an index beyond
\* the length of a row fails with an out-of-range error, whatever the lengths
\* of the rows and the order of the columns in the located headers: such a read
\* yields the empty string.
C11_PadOnRead == (op \in { "commit", "preview" }) => err # "IndexError"

\* the Crew table's Position column, column 0 when the header names none
PositionColumn == IF s_Position \in DOMAIN crew.cols THEN crew.cols[s_Position] ELSE 0

\* the seat the Position cell of a row denotes, 0 when it denotes none
SeatAt(row) ==
    LET p == strip(CellOr(row, PositionColumn))
    IN  IF isdigit(p) /\ int(p) \in 1..8 THEN int(p) ELSE 0

\* an athlete identifier: 2 to 8 letters followed by 3 to 8 digits
WellFormedId(s) ==
    \E k \in 2..8 : \E d \in 3..8 :
        /\ Len(s) = k + d
        /\ \A i \in 1..k : IsLetter(s[i])
        /\ \A i \in (k + 1)..(k + d) : IsDigit(s[i])

\* the row counts as the row of a crew member
CountsAsSeat(row) == SeatAt(row) # 0 /\ WellFormedId(strip(CellOr(row, crew.cols[s_Abbr])))

\* the crew entry a row yields
EntryOf(row) ==
    [ pos |-> SeatAt(row),
      name |-> strip(CellOr(row, crew.cols[s_Name])),
      abbr |-> strip(CellOr(row, crew.cols[s_Abbr])),
      existing_weight |-> strip(CellOr(row, crew.cols[s_Weight])) ]

CrewRegion == crew.start..(crew.end - 1)

SeatsInOrder == \A i, j \in 1..Len(out) : i < j => out[i].pos < out[j].pos

\* C12 (amended): the crew entries parse_first_crew returns hold each seat 1..8
\* at most once and are ordered by seat; a seat has an entry exactly when some
\* row of the Crew table for it carries a well-formed athlete identifier, and
\* the entry comes from the first such row in grid order: rows for the seat
\* with a blank or ill-formed identifier yield no entry and do not take the
\* seat, later rows for a seat already taken are dropped.
C12_FirstValidSeatWins ==
    (op = "preview" /\ pc = "done") =>
        /\ SeatsInOrder
        /\ \A i \in 1..Len(out) :
              \E r \in CrewRegion :
                  /\ CountsAsSeat(Row(snap, r))
                  /\ out[i] = EntryOf(Row(snap, r))
                  /\ \A q \in CrewRegion :
                        (q < r /\ CountsAsSeat(Row(snap, q)))
                            => SeatAt(Row(snap, q)) # out[i].pos
        /\ \A r \in CrewRegion :
              CountsAsSeat(Row(snap, r))
                  => \E i \in 1..Len(out) : out[i].pos = SeatAt(Row(snap, r))

\* a preview of a Crew table with two rows for one seat, both with a
\* well-formed identifier and different in content, and with a row for a seat
\* whose identifier is ill-formed
C12_Witness ==
    /\ op = "preview"
    /\ pc = "done"
    /\ \E r, q \in CrewRegion :
          /\ r < q
          /\ CountsAsSeat(Row(snap, r))
          /\ CountsAsSeat(Row(snap, q))
          /\ SeatAt(Row(snap, r)) = SeatAt(Row(snap, q))
          /\ EntryOf(Row(snap, r)) # EntryOf(Row(snap, q))
          /\ \E i \in 1..Len(out) : out[i] = EntryOf(Row(snap, r))

\* C12: the crew entries parse_first_crew returns hold each seat 1..8 at most
\* once and are ordered by seat, and the entry of a seat that occurs in several
\* rows of the Crew table comes from the first of these rows in grid order.
C12_FirstOccurrenceWins ==
    (op = "preview" /\ pc = "done") =>
        /\ SeatsInOrder
        /\ \A i \in 1..Len(out) :
              \E r \in CrewRegion :
                  /\ SeatAt(Row(snap, r)) = out[i].pos
                  /\ out[i] = EntryOf(Row(snap, r))
                  /\ \A q \in CrewRegion : q < r => SeatAt(Row(snap, q)) # out[i].pos

\* ------------------------------------------------------------------------
\* Marker normalization on its own
\* ------------------------------------------------------------------------

InitNormalize ==
    \E g \in GridsOver(NormRows, MaxNormRows) :
        Start("normalize", g) /\ first = << >> /\ weights = << >> /\ rig_info = << >>

SpecNormalize == InitNormalize /\ [][NormalizeMarkers]_vars

\* C1: marker normalization is idempotent: a second pass of the full step
\* (normalize_section_markers, then label_bare_error_markers) leaves the grid
\* of the first pass unchanged.
C1_NormalizeIdempotent == (op = "normalize" /\ pc = "done") => rows = snap

\* ------------------------------------------------------------------------
\* Multi-export trim on its own
\* ------------------------------------------------------------------------

TrimRows ==
    { << EQ_MARK \o SPACE \o s_File_Info >>,
      << ERROR_MARK >>,
      << <<"d">>, <<"1">> >> }

\* the exports with exactly one File Info header row
Exports ==
    { lead \o << FileInfoHeader >> \o data :
        lead \in GridsOver(TrimRows, MaxLead), data \in GridsOver(TrimRows, MaxData) }

\* a paste of two exports, or a grid with at most one File Info header
InitTrim ==
    /\ weights = << >>
    /\ rig_info = << >>
    /\ \/ \E a \in Exports, b \in Exports : Start("trim", a \o b) /\ first = a
       \/ \E a \in Exports \cup GridsOver(TrimRows, MaxLead) :
             Start("trim", a) /\ first = a

SpecTrim == InitTrim /\ [][Trim]_vars

\* C2: trimming the concatenation of two exports, each with exactly one File
\* Info header row, yields the first export, whether or not a marker row
\* precedes the second header; a grid with at most one header is unchanged.
C2_TrimYieldsFirstExport == (op = "trim" /\ pc = "done") => rows = first

====
